---- MODULE Spec2Model ----
(***************************************************************************)
(* Model of the retail recommender of modelo_recomendador:                 *)
(*   scripts/drift_detection.py            the drift gate                  *)
(*   scripts/training.py                   similarity training             *)
(*   scripts/training_basket_analysis.py   FP-Growth training              *)
(*   scripts/training_basket_modularized.py  the same, as functions        *)
(*   app/src/main.py                       GET /recommend/{stockcode}      *)
(*   app/src/main_basket_analysis_recommender.py   POST /recommend/        *)
(***************************************************************************)
EXTENDS Integers, Sequences, FiniteSets, TLC

VARIABLES
    \* ---- drift gate (drift_detection.py) ----
    gate_pc,                \* position of detectar_drift
    old_file,               \* ../data/old_invoice_data.parquet
    new_file,               \* ../data/new_invoice_data.parquet
    drift_detected_txt,     \* content of drift_detected.txt
    gate_writes,            \* writes to drift_detected.txt in the current run
    gate_raised,            \* an exception left detectar_drift
    dataframe_retail_data,  \* what the warehouse returned in the current run
    reference_data,         \* pd.read_parquet(old)
    new_data,               \* pd.read_parquet(new)
    start_old,              \* old_file when the current run started
    start_new,              \* new_file when the current run started
    gate_failed,            \* the stage that raised in the current run
    \* ---- similarity training (training.py) and serving (main.py) ----
    output_file,            \* data/output_file.parquet, the training input
    cooc_pkl,               \* models/co_ocurrence_matrix.pkl
    sim_pkl,                \* models/product_similarities.pkl
    train_pc,               \* position of the training script
    train_run,              \* number of the current training run
    train_cooc,             \* the script's co_ocurrence_matrix
    train_sim,              \* the script's product_similarities
    train_recs,             \* the script's example recommendations
    serve_pc,               \* position of the serving process
    co_ocurrence_matrix,    \* main.py: the loaded co-occurrence table
    product_similarities,   \* main.py: the loaded similarity matrix
    response,               \* the last answer of GET /recommend/{stockcode}
    \* ---- association rules (main_basket_analysis_recommender.py) ----
    rules,                  \* the loaded association_rules.pkl
    lookup,                 \* the last call of recommend_association_rules
    post_response,          \* the last answer of POST /recommend/
    \* ---- basket building (training*.py) ----
    transactions,           \* the transaction table given to the builders
    built,                  \* what the last builder made of it
    \* ---- a run of a training script (training*.py), stage by stage ----
    pipe_script,            \* which of the three scripts runs
    pipe_input,             \* the rows it reads or fetches
    pipe_pc,                \* the stage it is at
    pipe_conn,              \* the script's variable conn
    pipe_data,              \* the extract fetched by main(), by name
    pipe_snapshot,          \* the snapshot file main() wrote in this run
    pipe_written,           \* the model files written in this run
    pipe_error,             \* the first exception raised inside the try
    pipe_raised             \* the exception that leaves the script

driftVars == <<gate_pc, old_file, new_file, drift_detected_txt, gate_writes,
               gate_raised, dataframe_retail_data, reference_data, new_data,
               start_old, start_new, gate_failed>>

simVars == <<output_file, cooc_pkl, sim_pkl, train_pc, train_run, train_cooc,
             train_sim, train_recs, serve_pc, co_ocurrence_matrix,
             product_similarities, response>>

ruleVars == <<rules, lookup, post_response>>

basketVars == <<transactions, built>>

pipeVars == <<pipe_script, pipe_input, pipe_pc, pipe_conn, pipe_data,
              pipe_snapshot, pipe_written, pipe_error, pipe_raised>>

\* The state of the drift gate without the two snapshot files.
gateVars == <<gate_pc, drift_detected_txt, gate_writes, gate_raised,
              dataframe_retail_data, reference_data, new_data, start_old,
              start_new, gate_failed>>

vars == <<driftVars, simVars, ruleVars, basketVars, pipeVars>>

notDrift == <<simVars, ruleVars, basketVars, pipeVars>>
notSim == <<driftVars, ruleVars, basketVars, pipeVars>>
notRules == <<driftVars, simVars, basketVars, pipeVars>>
notBasket == <<driftVars, simVars, ruleVars, pipeVars>>
notPipe == <<gateVars, simVars, ruleVars, basketVars>>

(***************************************************************************)
(* The drift gate                                                          *)
(***************************************************************************)

\* The datasets the warehouse can return.
Data == {"d1", "d2"}

\* A snapshot file is missing, unreadable, or holds a dataset.
FileStates == {"absent", "corrupt"} \cup Data

\* The tokens detectar_drift writes.
Tokens == {"drift_detected", "no_drift", "error: archivo_no_encontrado",
           "error: carga_datos", "error: columna_no_encontrada",
           "error: reporte_drift", "error: clave_no_encontrada",
           "error: procesamiento_reporte"}

\* check_file_exists answering that no file exists.
check_file_existsMutant(file) == FALSE

\* os.path.exists(file_path)
check_file_exists(file) == file # "absent"

\* with open("drift_detected.txt", "w") as f: f.write(token)
WriteSignal(token) ==
    /\ drift_detected_txt' = token
    /\ gate_writes' = gate_writes + 1

\* ExceptLoad without its FileNotFoundError clause.
ExceptLoadMutant(kind) == "error: carga_datos"

\* The handlers of the first try block (lines 133-142).
ExceptLoad(kind) ==
    IF kind = "FileNotFoundError" THEN "error: archivo_no_encontrado"
    ELSE "error: carga_datos"

\* The handlers of the second try block (lines 157-166).
ExceptReport(kind) ==
    IF kind = "KeyError" THEN "error: columna_no_encontrada"
    ELSE "error: reporte_drift"

\* The handlers of the third try block (lines 184-191).
ExceptVerdict(kind) ==
    IF kind = "KeyError" THEN "error: clave_no_encontrada"
    ELSE "error: procesamiento_reporte"

\* pd.read_parquet(path): the dataset, or the exception it raises.
ReadParquet(file) ==
    IF file = "absent" THEN [ok |-> FALSE, kind |-> "FileNotFoundError", data |-> "none"]
    ELSE IF file = "corrupt" THEN [ok |-> FALSE, kind |-> "Exception", data |-> "none"]
    ELSE [ok |-> TRUE, kind |-> "none", data |-> file]

\* report_json["metrics"][0]["result"]["dataset_drift"]: the comparison of a
\* dataset with itself reports no drift; of two datasets, either verdict.
DatasetDrift(ref, cur) == IF ref = cur THEN {FALSE} ELSE {FALSE, TRUE}

DriftInit ==
    /\ gate_pc = "idle"
    /\ old_file \in FileStates
    /\ new_file \in FileStates
    /\ drift_detected_txt = "none"
    /\ gate_writes = 0
    /\ gate_raised = FALSE
    /\ dataframe_retail_data = "none"
    /\ reference_data = "none"
    /\ new_data = "none"
    /\ start_old = "none"
    /\ start_new = "none"
    /\ gate_failed = "none"

\* python drift_detection.py: a run of detectar_drift begins.
GateStart ==
    /\ gate_pc \in {"idle", "done"}
    /\ gate_pc' = "load_env"
    /\ gate_writes' = 0
    /\ gate_raised' = FALSE
    /\ dataframe_retail_data' = "none"
    /\ reference_data' = "none"
    /\ new_data' = "none"
    /\ start_old' = old_file
    /\ start_new' = new_file
    /\ gate_failed' = "none"
    /\ UNCHANGED <<old_file, new_file, drift_detected_txt, notDrift>>

\* line 108: load_environment_variables(), before the first try.
GateLoadEnv ==
    /\ gate_pc = "load_env"
    /\ \E ok \in BOOLEAN :
          IF ok
          THEN /\ gate_pc' = "fetch"
               /\ UNCHANGED <<gate_raised, gate_failed>>
          ELSE /\ gate_pc' = "done"
               /\ gate_raised' = TRUE
               /\ gate_failed' = "load_env"
    /\ UNCHANGED <<old_file, new_file, drift_detected_txt, gate_writes,
                   dataframe_retail_data, reference_data, new_data,
                   start_old, start_new, notDrift>>

\* lines 116-118: connect_to_snowflake, fetch_data_from_snowflake (called
\* without a query), close: the warehouse returns rows or an error.
GateFetch ==
    /\ gate_pc = "fetch"
    /\ \/ \E d \in Data :
            /\ dataframe_retail_data' = d
            /\ gate_pc' = "write"
            /\ UNCHANGED <<drift_detected_txt, gate_writes, gate_failed>>
       \/ /\ WriteSignal(ExceptLoad("Exception"))
          /\ gate_pc' = "done"
          /\ gate_failed' = "fetch"
          /\ UNCHANGED dataframe_retail_data
    /\ UNCHANGED <<old_file, new_file, gate_raised, reference_data, new_data,
                   start_old, start_new, notDrift>>

\* lines 125-128: the fetched rows go to the current snapshot when the
\* reference exists, and become the reference otherwise.
GateWrite ==
    /\ gate_pc = "write"
    /\ \/ /\ IF check_file_exists(old_file)
             THEN new_file' = dataframe_retail_data /\ UNCHANGED old_file
             ELSE old_file' = dataframe_retail_data /\ UNCHANGED new_file
          /\ gate_pc' = "read"
          /\ UNCHANGED <<drift_detected_txt, gate_writes, gate_failed>>
       \/ \E kind \in {"FileNotFoundError", "Exception"} :
            /\ WriteSignal(ExceptLoad(kind))
            /\ gate_pc' = "done"
            /\ gate_failed' = "write"
            /\ UNCHANGED <<old_file, new_file>>
    /\ UNCHANGED <<gate_raised, dataframe_retail_data, reference_data, new_data,
                   start_old, start_new, notDrift>>

\* lines 131-132: read the reference, then the current snapshot.
GateRead ==
    /\ gate_pc = "read"
    /\ LET r == ReadParquet(old_file)
           n == ReadParquet(new_file)
       IN  IF ~r.ok
           THEN /\ WriteSignal(ExceptLoad(r.kind))
                /\ gate_pc' = "done"
                /\ gate_failed' = "read"
                /\ UNCHANGED <<reference_data, new_data>>
           ELSE IF ~n.ok
           THEN /\ WriteSignal(ExceptLoad(n.kind))
                /\ gate_pc' = "done"
                /\ gate_failed' = "read"
                /\ reference_data' = r.data
                /\ UNCHANGED new_data
           ELSE /\ reference_data' = r.data
                /\ new_data' = n.data
                /\ gate_pc' = "report"
                /\ UNCHANGED <<drift_detected_txt, gate_writes, gate_failed>>
    /\ UNCHANGED <<old_file, new_file, gate_raised, dataframe_retail_data,
                   start_old, start_new, notDrift>>

\* lines 144-156: build the report, drop "Outcome", run the comparison.
GateReport ==
    /\ gate_pc = "report"
    /\ \/ /\ gate_pc' = "verdict"
          /\ UNCHANGED <<drift_detected_txt, gate_writes, gate_failed>>
       \/ \E kind \in {"KeyError", "Exception"} :
            /\ WriteSignal(ExceptReport(kind))
            /\ gate_pc' = "done"
            /\ gate_failed' = "report"
    /\ UNCHANGED <<old_file, new_file, gate_raised, dataframe_retail_data,
                   reference_data, new_data, start_old, start_new, notDrift>>

\* lines 168-191: extract the verdict and write it.
GateVerdict ==
    /\ gate_pc = "verdict"
    /\ \/ \E drift_detected \in DatasetDrift(reference_data, new_data) :
            /\ WriteSignal(IF drift_detected THEN "drift_detected" ELSE "no_drift")
            /\ UNCHANGED gate_failed
       \/ \E kind \in {"KeyError", "Exception"} :
            /\ WriteSignal(ExceptVerdict(kind))
            /\ gate_failed' = "verdict"
    /\ gate_pc' = "done"
    /\ UNCHANGED <<old_file, new_file, gate_raised, dataframe_retail_data,
                   reference_data, new_data, start_old, start_new, notDrift>>

DriftNext ==
    \/ GateStart
    \/ GateLoadEnv
    \/ GateFetch
    \/ GateWrite
    \/ GateRead
    \/ GateReport
    \/ GateVerdict

DriftIdle ==
    /\ gate_pc = "idle"
    /\ old_file = "absent"
    /\ new_file = "absent"
    /\ drift_detected_txt = "none"
    /\ gate_writes = 0
    /\ gate_raised = FALSE
    /\ dataframe_retail_data = "none"
    /\ reference_data = "none"
    /\ new_data = "none"
    /\ start_old = "none"
    /\ start_new = "none"
    /\ gate_failed = "none"

(***************************************************************************)
(* Transaction tables                                                      *)
(***************************************************************************)

\* The stock codes of the model, in the order pandas sorts them; the three
\* the source names (training.py:71, main_basket_analysis_recommender.py:55-56).
A == "21937"
B == "22064"
C == "23355"
StockCodes == <<A, B, C>>

\* The invoice numbers of the model, in sorted order.
Invoices == <<1, 2>>

\* Longest training input of the similarity model.
MaxSimRows == 3

\* Largest n of a GET /recommend request.
MaxN == 3

Range(s) == {s[k] : k \in DOMAIN s}

RECURSIVE SeqsUpTo(_, _)
\* The sequences over S of length at most n.
SeqsUpTo(S, n) ==
    IF n = 0 THEN {<<>>}
    ELSE LET shorter == SeqsUpTo(S, n - 1)
         IN  shorter \cup {Append(s, x) : s \in {t \in shorter : Len(t) = n - 1}, x \in S}

\* A line of the transaction table.
Row(i, s, q) == [INVOICENO |-> i, STOCKCODE |-> s, QUANTITY |-> q]

\* The training inputs of the similarity model (quantities play no part in it).
SimFrames == SeqsUpTo({Row(i, s, 1) : i \in Range(Invoices), s \in Range(StockCodes)},
                      MaxSimRows)

\* The sorted distinct stock codes of a table: the columns of a pivot.
ColumnsOf(df) == SelectSeq(StockCodes, LAMBDA s : \E k \in DOMAIN df : df[k].STOCKCODE = s)

\* The sorted distinct invoice numbers of a table: the index of a pivot.
IndexOf(df) == SelectSeq(Invoices, LAMBDA i : \E k \in DOMAIN df : df[k].INVOICENO = i)

\* PivotSize with the quantity of a line of the pair as the cell.
PivotSizeMutant(df) ==
    LET index == IndexOf(df)
        columns == ColumnsOf(df)
    IN  [index |-> index, columns |-> columns,
         values |-> [r \in DOMAIN index |-> [c \in DOMAIN columns |->
            LET q == {k \in DOMAIN df : /\ df[k].INVOICENO = index[r]
                                         /\ df[k].STOCKCODE = columns[c]}
            IN  IF q = {} THEN 0 ELSE df[CHOOSE k \in q : TRUE].QUANTITY]]]

\* training.py:39  pivot_table(index="INVOICENO", columns="STOCKCODE",
\* aggfunc="size", fill_value=0): the number of lines of each pair.
PivotSize(df) ==
    LET index == IndexOf(df)
        columns == ColumnsOf(df)
    IN  [index |-> index, columns |-> columns,
         values |-> [r \in DOMAIN index |-> [c \in DOMAIN columns |->
            Cardinality({k \in DOMAIN df : /\ df[k].INVOICENO = index[r]
                                          /\ df[k].STOCKCODE = columns[c]})]]]

(***************************************************************************)
(* Similarity: training.py and app/src/main.py                             *)
(***************************************************************************)

RECURSIVE SumTo(_, _)
\* f[1] + ... + f[n]
SumTo(f, n) == IF n = 0 THEN 0 ELSE f[n] + SumTo(f, n - 1)

\* The dot product of columns i and j of a table's values.
Dot(values, i, j) ==
    SumTo([r \in DOMAIN values |-> values[r][i] * values[r][j]], Len(values))

\* training.py:51  cosine_similarity(co_ocurrence_matrix.T). A score is kept
\* as the exact fraction <<num, den>> of its square (cosines of counts are
\* never negative, so the squares order as the scores do); a zero column
\* scores 0 against everything, as sklearn's normalisation defines it.
cosine_similarity(table) ==
    [i \in DOMAIN table.columns |-> [j \in DOMAIN table.columns |->
        LET d == Dot(table.values, i, j)
            n == Dot(table.values, i, i) * Dot(table.values, j, j)
        IN  IF n = 0 THEN <<0, 1>> ELSE <<d * d, n>>]]

\* x > y for two scores.
Greater(x, y) == x[1] * y[2] > y[1] * x[2]

\* list(enumerate(row)): the pairs (position, score); positions count from 1
\* here and from 0 in the source.
Enumerate(row) == [k \in DOMAIN row |-> [idx |-> k, score |-> row[k]]]

Remove(s, k) == SubSeq(s, 1, k - 1) \o SubSeq(s, k + 1, Len(s))

\* The first position of s that holds a largest score.
FirstMax(s) ==
    CHOOSE k \in DOMAIN s :
        /\ \A m \in DOMAIN s : ~Greater(s[m].score, s[k].score)
        /\ \A m \in 1..(k - 1) : Greater(s[k].score, s[m].score)

RECURSIVE SortedDesc(_)
\* sorted(sim_scores, key=lambda x: x[1], reverse=True): descending by score,
\* equal scores in their original order (Python's sort is stable).
SortedDesc(s) ==
    IF s = <<>> THEN <<>>
    ELSE LET k == FirstMax(s) IN <<s[k]>> \o SortedDesc(Remove(s, k))

Max(a, b) == IF a > b THEN a ELSE b
Min(a, b) == IF a < b THEN a ELSE b

\* A Python slice bound: negative bounds count from the end, all are clipped.
SliceBound(b, len) == IF b < 0 THEN Max(len + b, 0) ELSE Min(b, len)

\* s[start:stop]
PySlice(s, start, stop) ==
    LET lo == SliceBound(start, Len(s))
        hi == SliceBound(stop, Len(s))
    IN  IF lo < hi THEN SubSeq(s, lo + 1, hi) ELSE <<>>

\* columns.get_loc(stockcode): the position of the code, 0 when it is absent
\* (the source raises KeyError there).
get_loc(columns, stockcode) ==
    IF \E k \in DOMAIN columns : columns[k] = stockcode
    THEN CHOOSE k \in DOMAIN columns : columns[k] = stockcode
    ELSE 0

\* main.py:17-21 and training.py:63-67, the body shared by recommend and
\* recommended_products: the recommendations, or the exception raised.
SimilarProducts(stockcode, n, table, sims) ==
    LET product_idx == get_loc(table.columns, stockcode)
    IN  IF product_idx = 0 THEN [raised |-> "KeyError", products |-> <<>>]
        ELSE IF product_idx > Len(sims) THEN [raised |-> "IndexError", products |-> <<>>]
        ELSE LET sim_scores == PySlice(SortedDesc(Enumerate(sims[product_idx])), 1, n + 1)
             IN  IF \E k \in DOMAIN sim_scores : sim_scores[k].idx > Len(table.columns)
                 THEN [raised |-> "IndexError", products |-> <<>>]
                 ELSE [raised |-> "none",
                       products |-> [k \in DOMAIN sim_scores |->
                                        table.columns[sim_scores[k].idx]]]

\* What FastAPI answers for the outcome of the handler: the handler's return
\* value, or 500 for an exception no handler catches (main.py registers none).
HttpResponse(stockcode, n, outcome) ==
    IF outcome.raised = "none"
    THEN [status |-> 200, stockcode |-> stockcode, recommendations |-> outcome.products,
          error |-> "none", n |-> n]
    ELSE [status |-> 500, stockcode |-> stockcode, recommendations |-> <<>>,
          error |-> outcome.raised, n |-> n]

NoTable == [index |-> <<>>, columns |-> <<>>, values |-> <<>>]
\* A pickle file: absent, emptied by open(path, 'wb'), or complete with the
\* object of a training run.
Absent == [state |-> "absent", run |-> 0, obj |-> <<>>]
Truncated == [state |-> "truncated", run |-> 0, obj |-> <<>>]
Pickled(run, obj) == [state |-> "complete", run |-> run, obj |-> obj]

NoResponse == [status |-> 0, stockcode |-> "none", recommendations |-> <<>>,
               error |-> "none", n |-> 0]

SimInitWith(frames) ==
    /\ output_file \in frames
    /\ cooc_pkl = Absent
    /\ sim_pkl = Absent
    /\ train_pc = "idle"
    /\ train_run = 0
    /\ train_cooc = NoTable
    /\ train_sim = <<>>
    /\ train_recs = <<>>
    /\ serve_pc = "start"
    /\ co_ocurrence_matrix = Absent
    /\ product_similarities = Absent
    /\ response = NoResponse

trainVars == <<train_pc, train_run, train_cooc, train_sim, train_recs>>
serveVars == <<serve_pc, co_ocurrence_matrix, product_similarities, response>>

\* training.py:36-39: read the input and build the co-occurrence table.
TrainPivot ==
    /\ train_pc = "idle"
    /\ train_run' = train_run + 1
    /\ train_cooc' = PivotSize(output_file)
    /\ train_sim' = <<>>
    /\ train_recs' = <<>>
    /\ train_pc' = "open_cooc"
    /\ UNCHANGED <<output_file, cooc_pkl, sim_pkl, serveVars, notSim>>

\* training.py:44: open(co_ocurrence_matrix_path, 'wb') empties the file.
TrainOpenCooc ==
    /\ train_pc = "open_cooc"
    /\ cooc_pkl' = Truncated
    /\ train_pc' = "dump_cooc"
    /\ UNCHANGED <<output_file, sim_pkl, train_run, train_cooc, train_sim,
                   train_recs, serveVars, notSim>>

\* training.py:45-51: the table is written out, then the similarities are
\* computed; cosine_similarity refuses a table with no column (ValueError).
TrainDumpCooc ==
    /\ train_pc = "dump_cooc"
    /\ cooc_pkl' = Pickled(train_run, train_cooc)
    /\ IF train_cooc.columns = <<>>
       THEN train_pc' = "failed" /\ UNCHANGED train_sim
       ELSE train_pc' = "open_sim" /\ train_sim' = cosine_similarity(train_cooc)
    /\ UNCHANGED <<output_file, sim_pkl, train_run, train_cooc, train_recs, serveVars, notSim>>

\* training.py:55: open(product_similarities_path, 'wb') empties the file.
TrainOpenSim ==
    /\ train_pc = "open_sim"
    /\ sim_pkl' = Truncated
    /\ train_pc' = "dump_sim"
    /\ UNCHANGED <<output_file, cooc_pkl, train_run, train_cooc, train_sim,
                   train_recs, serveVars, notSim>>

\* training.py:56: the similarity matrix is written out.
TrainDumpSim ==
    /\ train_pc = "dump_sim"
    /\ sim_pkl' = Pickled(train_run, train_sim)
    /\ train_pc' = "example"
    /\ UNCHANGED <<output_file, cooc_pkl, train_run, train_cooc, train_sim,
                   train_recs, serveVars, notSim>>

\* training.py:71-85: the example lookup for "21937" with the default n = 10.
TrainExample ==
    /\ train_pc = "example"
    /\ LET outcome == SimilarProducts(A, 10, train_cooc, train_sim)
       IN  IF outcome.raised = "none"
           THEN train_recs' = outcome.products /\ train_pc' = "done"
           ELSE train_recs' = <<>> /\ train_pc' = "failed"
    /\ UNCHANGED <<output_file, cooc_pkl, sim_pkl, train_run, train_cooc,
                   train_sim, serveVars, notSim>>

\* pickle.load of a file: it must exist and be complete.
Loadable(file) == file.state = "complete"

\* main.py:8-9: the serving process loads the co-occurrence table.
ServeLoadCooc ==
    /\ serve_pc = "start"
    /\ IF Loadable(cooc_pkl)
       THEN co_ocurrence_matrix' = cooc_pkl /\ serve_pc' = "load_sim"
       ELSE UNCHANGED co_ocurrence_matrix /\ serve_pc' = "crashed"
    /\ UNCHANGED <<output_file, cooc_pkl, sim_pkl, trainVars, product_similarities,
                   response, notSim>>

\* main.py:12-13: the serving process loads the similarity matrix.
ServeLoadSim ==
    /\ serve_pc = "load_sim"
    /\ IF Loadable(sim_pkl)
       THEN product_similarities' = sim_pkl /\ serve_pc' = "serving"
       ELSE UNCHANGED product_similarities /\ serve_pc' = "crashed"
    /\ UNCHANGED <<output_file, cooc_pkl, sim_pkl, trainVars, co_ocurrence_matrix,
                   response, notSim>>

\* main.py:15-22: GET /recommend/{stockcode}?n=
recommend(stockcode, n) ==
    /\ serve_pc = "serving"
    /\ response' = HttpResponse(stockcode, n,
                        SimilarProducts(stockcode, n, co_ocurrence_matrix.obj,
                                        product_similarities.obj))
    /\ UNCHANGED <<output_file, cooc_pkl, sim_pkl, trainVars, serve_pc,
                   co_ocurrence_matrix, product_similarities, notSim>>

\* The requests of the model: every stock code, n from -2 to MaxN.
Requests == \E stockcode \in Range(StockCodes), n \in (0 - 2)..MaxN : recommend(stockcode, n)

SimNext ==
    \/ TrainPivot
    \/ TrainOpenCooc
    \/ TrainDumpCooc
    \/ TrainOpenSim
    \/ TrainDumpSim
    \/ TrainExample
    \/ ServeLoadCooc
    \/ ServeLoadSim
    \/ Requests

(***************************************************************************)
(* Association rules: app/src/main_basket_analysis_recommender.py          *)
(***************************************************************************)

\* Most rules in a loaded rule table.
MaxRules == 2

\* Most rules in the rule table of a POST /recommend/ run.
MaxPostRules == 2

\* Most items in the body of a POST /recommend/.
MaxItems == 2

\* The lifts of the model's rules (the miner keeps lift >= 1).
Lifts == {1, 2}

\* The counts asked for: of a direct lookup, and in a POST body.
Counts == {-1, 0, 1, 2}
PostCounts == {0, 1}

NonEmptySubsets(S) == SUBSET S \ {{}}

\* The rules over the model's stock codes: antecedents and consequents are
\* non-empty and disjoint.
RulesWithLift(lifts) ==
    {[antecedents |-> a, consequents |-> c, lift |-> l] :
        a \in NonEmptySubsets(Range(StockCodes)),
        c \in NonEmptySubsets(Range(StockCodes)),
        l \in lifts} \ {r \in [antecedents : SUBSET Range(StockCodes),
                              consequents : SUBSET Range(StockCodes),
                              lift : lifts] : r.antecedents \cap r.consequents # {}}

\* The permutations of a sequence.
RECURSIVE Perms(_)
Perms(s) ==
    IF s = <<>> THEN {<<>>}
    ELSE UNION {{<<s[k]>> \o t : t \in Perms(Remove(s, k))} : k \in DOMAIN s}

\* A set as a list in the order of the stock codes.
SetToSeq(S) == SelectSeq(StockCodes, LAMBDA x : x \in S)

\* line 29: rules[rules['antecedents'].apply(lambda x: stockcode in x)]
ProductRules(stockcode, table) ==
    SelectSeq(table, LAMBDA r : stockcode \in r.antecedents)

\* SortValues in ascending order.
SortValuesMutant(product_rules) ==
    {t \in Perms(product_rules) :
        \A k \in 1..(Len(t) - 1) : t[k].lift <= t[k + 1].lift}

\* line 30: sort_values(by='lift', ascending=False). pandas sorts with
\* quicksort unless told otherwise, which fixes no order among equal lifts:
\* every descending order is an outcome.
SortValues(product_rules) ==
    {t \in Perms(product_rules) :
        \A k \in 1..(Len(t) - 1) : t[k].lift >= t[k + 1].lift}

\* line 30: .head(n), the first n rows, or all but the last -n for n < 0.
Head_n(product_rules, n) == PySlice(product_rules, 0, n)

RECURSIVE Flatten(_)
\* lines 31-34: recommended_products.extend(list(rule)) for each rule kept.
Flatten(product_rules) ==
    IF product_rules = <<>> THEN <<>>
    ELSE SetToSeq(product_rules[1].consequents) \o Flatten(Tail(product_rules))

\* line 37: list(set(recommended_products)); a set lists its members in no
\* fixed order, every order is an outcome.
ListOfSet(recommended_products) == Perms(SetToSeq(Range(recommended_products)))

\* lines 13-39: the values recommend_association_rules can return.
recommend_association_rules(stockcode, table, n) ==
    {[stockcode |-> stockcode, recommendations |-> unique_recommendations] :
        unique_recommendations \in
            UNION {ListOfSet(Flatten(Head_n(sorted, n))) :
                      sorted \in SortValues(ProductRules(stockcode, table))}}

\* Kept without the test.
KeptMutant(recommendations) == TRUE

\* line 79: if recommendations["recommendations"]
Kept(recommendations) == recommendations.recommendations # <<>>

RECURSIVE PostResponses(_, _)
\* lines 72-82: the lists POST /recommend/ can return for a body.
PostResponses(stockcodes, table) ==
    IF stockcodes = <<>> THEN {<<>>}
    ELSE {(IF Kept(recommendations) THEN <<recommendations>> ELSE <<>>) \o rest :
             recommendations \in recommend_association_rules(
                 stockcodes[1].stockcode, table, stockcodes[1].recommendations),
             rest \in PostResponses(Tail(stockcodes), table)}

\* A StockcodesModel of a POST body.
PostItems == [stockcode : Range(StockCodes), recommendations : PostCounts]

NoLookup == [called |-> FALSE, stockcode |-> "none", n |-> 0, recommendations |-> <<>>]
NoPost == [status |-> 0, body |-> <<>>, list |-> <<>>]

RulesInitWith(tables) ==
    /\ rules \in tables
    /\ lookup = NoLookup
    /\ post_response = NoPost

\* A call recommend_association_rules(stockcode, rules, n). The function
\* reads its arguments only, so a behaviour makes one call.
Lookup ==
    /\ ~lookup.called
    /\ \E stockcode \in Range(StockCodes), n \in Counts :
         \E result \in recommend_association_rules(stockcode, rules, n) :
             /\ lookup' = [called |-> TRUE, stockcode |-> stockcode, n |-> n,
                           recommendations |-> result.recommendations]
             /\ UNCHANGED <<rules, post_response, notRules>>

\* lines 61-82: POST /recommend/ with a body of StockcodesModel items. The
\* handler reads rules only, so a behaviour answers one request.
PostRecommend ==
    /\ post_response.status = 0
    /\ \E stockcodes \in SeqsUpTo(PostItems, MaxItems) :
         \E recommendations_list \in PostResponses(stockcodes, rules) :
             /\ post_response' = [status |-> 200, body |-> stockcodes,
                                  list |-> recommendations_list]
             /\ UNCHANGED <<rules, lookup, notRules>>

(***************************************************************************)
(* Basket building: training.py, training_basket_analysis.py,              *)
(* training_basket_modularized.py                                          *)
(***************************************************************************)

\* Longest transaction table given to the builders.
MaxRows == 3

\* The quantities of a line; returns are booked as negative quantities.
Quantities == {-1, 1, 2}

\* The transaction tables given to the builders.
BasketFrames ==
    SeqsUpTo({Row(i, s, q) : i \in Range(Invoices), s \in {A, B}, q \in Quantities},
             MaxRows)

\* groupby(["INVOICENO", "STOCKCODE"])["QUANTITY"].sum().unstack().fillna(0):
\* the summed quantity of each pair that has lines, 0 for a pair that has none.
GroupSum(df) ==
    LET index == IndexOf(df)
        columns == ColumnsOf(df)
    IN  [index |-> index, columns |-> columns,
         values |-> [r \in DOMAIN index |-> [c \in DOMAIN columns |->
            LET q == SelectSeq(df, LAMBDA row : /\ row.INVOICENO = index[r]
                                                /\ row.STOCKCODE = columns[c])
            IN  SumTo([k \in DOMAIN q |-> q[k].QUANTITY], Len(q))]]]

\* training_basket_analysis.py:40  applymap(lambda x: 1 if x > 0 else 0)
Positive(x) == IF x > 0 THEN 1 ELSE 0

\* training_basket_analysis.py:39-40
BasketAnalysis(df) ==
    LET basket == GroupSum(df)
    IN  [basket EXCEPT !.values = [r \in DOMAIN basket.values |->
            [c \in DOMAIN basket.values[r] |-> Positive(basket.values[r][c])]]]

\* astype(bool): every number but 0 is True.
AsBool(x) == x # 0

\* training_basket_modularized.py:191-203
transform_to_basket(dataframe) ==
    LET basket == GroupSum(dataframe)
    IN  [basket EXCEPT !.values = [r \in DOMAIN basket.values |->
            [c \in DOMAIN basket.values[r] |-> AsBool(basket.values[r][c])]]]

NotBuilt == [done |-> FALSE, table |-> NoTable]
Built(table) == [done |-> TRUE, table |-> table]

BasketInitWith(frames) ==
    /\ transactions \in frames
    /\ built = [pivot |-> NotBuilt, analysis |-> NotBuilt, modular |-> NotBuilt]

\* training.py:39 on the table.
BuildCoOccurrence ==
    /\ ~built.pivot.done
    /\ built' = [built EXCEPT !.pivot = Built(PivotSize(transactions))]
    /\ UNCHANGED <<transactions, notBasket>>

\* training_basket_analysis.py:39-40 on the table.
BuildBasketAnalysis ==
    /\ ~built.analysis.done
    /\ built' = [built EXCEPT !.analysis = Built(BasketAnalysis(transactions))]
    /\ UNCHANGED <<transactions, notBasket>>

\* training_basket_modularized.py:329 transform_to_basket(dataframe_retail_data)
BuildBasketModular ==
    /\ ~built.modular.done
    /\ built' = [built EXCEPT !.modular = Built(transform_to_basket(transactions))]
    /\ UNCHANGED <<transactions, notBasket>>

BasketNext ==
    \/ BuildCoOccurrence
    \/ BuildBasketAnalysis
    \/ BuildBasketModular

(***************************************************************************)
(* A run of a training script, stage by stage: training.py,                *)
(* training_basket_analysis.py and main() of training_basket_modularized.py *)
(***************************************************************************)

Scripts == {"training", "basket_analysis", "modularized"}

\* The statements of the try block of each script, in order.
Steps(script) ==
    IF script = "training"
    THEN <<"connect_db", "create_table", "read_input", "build_table", "save_table",
           "similarity", "save_similarity", "example", "log", "insert">>
    ELSE IF script = "basket_analysis"
    THEN <<"connect_db", "create_table", "read_input", "build_table", "mine",
           "save_itemsets", "rules", "save_rules", "example", "log", "insert">>
    ELSE <<"fetch", "snapshot", "connect_db", "create_table", "build_table", "mine",
           "save_itemsets", "rules", "save_rules", "example", "log", "insert">>

\* The statement after a stage; after the last one the finally clause runs.
NextStep(script, stage) ==
    LET steps == Steps(script)
        k == CHOOSE i \in DOMAIN steps : steps[i] = stage
    IN  IF k = Len(steps) THEN "finally" ELSE steps[k + 1]

NoError == [stage |-> "none", kind |-> "none"]

\* The rows a run can be given.
PipeInputs == {<<>>, <<Row(1, A, 1)>>, <<Row(1, A, 1), Row(1, C, 1)>>}

PipeInitWith(inputs) ==
    /\ pipe_script = "none"
    /\ pipe_input \in inputs
    /\ pipe_pc = "idle"
    /\ pipe_conn = "unbound"
    /\ pipe_data = "none"
    /\ pipe_snapshot = "none"
    /\ pipe_written = {}
    /\ pipe_error = NoError
    /\ pipe_raised = NoError

PipeIdle == PipeInitWith({<<>>})

\* The stage ends and the next statement runs.
Advance ==
    /\ pipe_pc' = NextStep(pipe_script, pipe_pc)
    /\ UNCHANGED pipe_error

\* The stage raises: control goes to "except Exception as e".
Raise(kind) ==
    /\ pipe_error' = [stage |-> pipe_pc, kind |-> kind]
    /\ pipe_pc' = "except"

\* A stage that changes nothing this model keeps: it ends or raises.
Plain ==
    /\ (Advance \/ Raise("Exception"))
    /\ UNCHANGED <<pipe_script, pipe_input, pipe_conn, pipe_data, pipe_snapshot,
                   pipe_written, pipe_raised, old_file, new_file, notPipe>>

\* A stage that refuses a table built from no rows (ValueError) and otherwise
\* ends or raises.
NeedsRows ==
    /\ IF pipe_input = <<>>
       THEN Raise("ValueError")
       ELSE (Advance \/ Raise("Exception"))
    /\ UNCHANGED <<pipe_script, pipe_input, pipe_conn, pipe_data, pipe_snapshot,
                   pipe_written, pipe_raised, old_file, new_file, notPipe>>

\* open(path, 'wb'), pickle.dump, mlflow.log_artifact: the file is written
\* and logged; or open raises and nothing is written; or log_artifact raises
\* after the file was written.
Save(file) ==
    /\ \/ /\ pipe_written' = pipe_written \cup {file}
          /\ Advance
       \/ /\ UNCHANGED pipe_written
          /\ Raise("Exception")
       \/ /\ pipe_written' = pipe_written \cup {file}
          /\ Raise("Exception")
    /\ UNCHANGED <<pipe_script, pipe_input, pipe_conn, pipe_data, pipe_snapshot,
                   pipe_raised, old_file, new_file, notPipe>>

\* python <script>: the statements before the try. Only main() sets
\* conn = None before it. Runs follow one another: none starts while the
\* drift gate or another training run is under way.
PipeStart(script) ==
    /\ pipe_pc \in {"idle", "exited"}
    /\ gate_pc \in {"idle", "done"}
    /\ pipe_script' = script
    /\ pipe_pc' = Steps(script)[1]
    /\ pipe_conn' = IF script = "modularized" THEN "None" ELSE "unbound"
    /\ pipe_data' = "none"
    /\ pipe_snapshot' = "none"
    /\ pipe_written' = {}
    /\ pipe_error' = NoError
    /\ pipe_raised' = NoError
    /\ UNCHANGED <<pipe_input, old_file, new_file, notPipe>>

\* main() 304-306: connect_to_snowflake, fetch_data_from_snowflake, close.
PipeFetch ==
    /\ pipe_pc = "fetch"
    /\ \/ \E d \in Data :
            /\ pipe_data' = d
            /\ Advance
       \/ /\ UNCHANGED pipe_data
          /\ Raise("Exception")
    /\ UNCHANGED <<pipe_script, pipe_input, pipe_conn, pipe_snapshot, pipe_written,
                   pipe_raised, old_file, new_file, notPipe>>

\* main() 316-319: the fetched rows go to the current snapshot when the
\* reference exists, and become the reference otherwise.
PipeSnapshot ==
    /\ pipe_pc = "snapshot"
    /\ \/ /\ IF check_file_exists(old_file)
             THEN /\ new_file' = pipe_data
                  /\ pipe_snapshot' = "new"
                  /\ UNCHANGED old_file
             ELSE /\ old_file' = pipe_data
                  /\ pipe_snapshot' = "old"
                  /\ UNCHANGED new_file
          /\ Advance
       \/ /\ UNCHANGED <<old_file, new_file, pipe_snapshot>>
          /\ Raise("Exception")
    /\ UNCHANGED <<pipe_script, pipe_input, pipe_conn, pipe_data, pipe_written,
                   pipe_raised, notPipe>>

\* conn = sqlite3.connect('recommendations.db'); cursor = conn.cursor().
\* When connect raises, conn is not assigned.
PipeConnect ==
    /\ pipe_pc = "connect_db"
    /\ \/ /\ pipe_conn' = "open"
          /\ Advance
       \/ /\ UNCHANGED pipe_conn
          /\ Raise("OperationalError")
    /\ UNCHANGED <<pipe_script, pipe_input, pipe_data, pipe_snapshot, pipe_written,
                   pipe_raised, old_file, new_file, notPipe>>

\* CREATE TABLE IF NOT EXISTS recommendations.
PipeCreateTable ==
    /\ pipe_pc = "create_table"
    /\ Plain

\* pd.read_parquet of the input file.
PipeReadInput ==
    /\ pipe_pc = "read_input"
    /\ Plain

\* pivot_table (training.py:39), the basket table (training_basket_analysis.py
\* 39-40, transform_to_basket): no row count is checked.
PipeBuildTable ==
    /\ pipe_pc = "build_table"
    /\ Plain

\* training.py:42-48
PipeSaveTable ==
    /\ pipe_pc = "save_table"
    /\ Save("co_ocurrence_matrix.pkl")

\* training.py:51: cosine_similarity(co_ocurrence_matrix.T)
PipeSimilarity ==
    /\ pipe_pc = "similarity"
    /\ NeedsRows

\* training.py:54-59
PipeSaveSimilarity ==
    /\ pipe_pc = "save_similarity"
    /\ Save("product_similarities.pkl")

\* fpgrowth(basket, min_support=0.01, use_colnames=True)
PipeMine ==
    /\ pipe_pc = "mine"
    /\ Plain

\* The frequent itemsets are written out.
PipeSaveItemsets ==
    /\ pipe_pc = "save_itemsets"
    /\ Save("frequent_itemsets.pkl")

\* association_rules(frequent_itemsets, metric="lift", min_threshold=1)
PipeRules ==
    /\ pipe_pc = "rules"
    /\ NeedsRows

\* The rules are written out.
PipeSaveRules ==
    /\ pipe_pc = "save_rules"
    /\ Save("association_rules.pkl")

\* The example lookup of the script.
PipeExample ==
    /\ pipe_pc = "example"
    /\ Plain

\* mlflow.log_param("stockcode", ...), mlflow.log_metric(...)
PipeLog ==
    /\ pipe_pc = "log"
    /\ Plain

\* INSERT INTO recommendations, conn.commit(), print.
PipeInsert ==
    /\ pipe_pc = "insert"
    /\ Plain

\* except Exception as e: the two scripts log the error and raise it again;
\* main() logs and prints it, and goes on.
PipeExcept ==
    /\ pipe_pc = "except"
    /\ pipe_raised' = IF pipe_script = "modularized" THEN NoError ELSE pipe_error
    /\ pipe_pc' = "finally"
    /\ UNCHANGED <<pipe_script, pipe_input, pipe_conn, pipe_data, pipe_snapshot,
                   pipe_written, pipe_error, old_file, new_file, notPipe>>

\* finally: the two scripts call conn.close(), a NameError when conn was
\* never assigned; main() closes conn when it is set. Then mlflow.end_run(),
\* and the script ends.
PipeFinally ==
    /\ pipe_pc = "finally"
    /\ IF pipe_script # "modularized" /\ pipe_conn = "unbound"
       THEN /\ pipe_raised' = [stage |-> "finally", kind |-> "NameError"]
            /\ UNCHANGED pipe_conn
       ELSE /\ pipe_conn' = IF pipe_conn = "open" THEN "closed" ELSE pipe_conn
            /\ UNCHANGED pipe_raised
    /\ pipe_pc' = "exited"
    /\ UNCHANGED <<pipe_script, pipe_input, pipe_data, pipe_snapshot, pipe_written,
                   pipe_error, old_file, new_file, notPipe>>

\* Any of the three scripts is started.
PipeRun == \E script \in Scripts : PipeStart(script)

PipeNext ==
    \/ PipeRun
    \/ PipeFetch
    \/ PipeSnapshot
    \/ PipeConnect
    \/ PipeCreateTable
    \/ PipeReadInput
    \/ PipeBuildTable
    \/ PipeSaveTable
    \/ PipeSimilarity
    \/ PipeSaveSimilarity
    \/ PipeMine
    \/ PipeSaveItemsets
    \/ PipeRules
    \/ PipeSaveRules
    \/ PipeExample
    \/ PipeLog
    \/ PipeInsert
    \/ PipeExcept
    \/ PipeFinally

RulesIdle == RulesInitWith({<<>>})

BasketIdle == BasketInitWith({<<>>})

\* One training run on any input, a serving process started at any moment,
\* and any requests.
InitSim == SimInitWith(SimFrames) /\ DriftIdle /\ RulesIdle /\ BasketIdle /\ PipeIdle

SpecSim == InitSim /\ [][SimNext]_vars

\* Any lookups in any rule table.
InitRules == RulesInitWith(SeqsUpTo(RulesWithLift(Lifts), MaxRules))
             /\ DriftIdle /\ SimInitWith({<<>>}) /\ BasketIdle /\ PipeIdle

SpecRules == InitRules /\ [][Lookup]_vars

\* Any POST /recommend/ on any rule table.
InitPost == RulesInitWith(SeqsUpTo(RulesWithLift({1}), MaxPostRules))
            /\ DriftIdle /\ SimInitWith({<<>>}) /\ BasketIdle /\ PipeIdle

SpecPost == InitPost /\ [][PostRecommend]_vars

\* Most training runs of a behaviour with retraining.
MaxRuns == 2

\* The inputs of the training runs of such a behaviour.
ReloadFrames == {<<Row(1, A, 1)>>, <<Row(1, A, 1), Row(1, B, 1)>>}

\* The training script is run again, on a fresh extract.
TrainAgain ==
    /\ train_pc \in {"done", "failed"}
    /\ train_run < MaxRuns
    /\ output_file' \in ReloadFrames
    /\ train_pc' = "idle"
    /\ UNCHANGED <<cooc_pkl, sim_pkl, train_run, train_cooc, train_sim, train_recs,
                   serveVars, notSim>>

\* The serving process is started again: main.py:8-13 run once per process.
ServeRestart ==
    /\ serve_pc \in {"serving", "crashed"}
    /\ serve_pc' = "start"
    /\ co_ocurrence_matrix' = Absent
    /\ product_similarities' = Absent
    /\ response' = NoResponse
    /\ UNCHANGED <<output_file, cooc_pkl, sim_pkl, trainVars, notSim>>

ReloadNext ==
    \/ TrainPivot
    \/ TrainOpenCooc
    \/ TrainDumpCooc
    \/ TrainOpenSim
    \/ TrainDumpSim
    \/ TrainExample
    \/ TrainAgain
    \/ ServeLoadCooc
    \/ ServeLoadSim
    \/ ServeRestart
    \/ Requests

\* Repeated training runs beside a serving process that starts at any moment.
InitReload == SimInitWith(ReloadFrames) /\ DriftIdle /\ RulesIdle /\ BasketIdle /\ PipeIdle

SpecReload == InitReload /\ [][ReloadNext]_vars

\* The three builders on any transaction table.
InitBasket == BasketInitWith(BasketFrames)
              /\ DriftIdle /\ SimInitWith({<<>>}) /\ RulesIdle /\ PipeIdle

SpecBasket == InitBasket /\ [][BasketNext]_vars

\* The drift gate run any number of times on any storage.
InitDrift == DriftInit /\ SimInitWith({<<>>}) /\ RulesIdle /\ BasketIdle /\ PipeIdle

SpecDrift == InitDrift /\ [][DriftNext]_vars

\* The three training scripts run any number of times, on any input, from
\* an empty data folder.
InitPipeline == PipeInitWith(PipeInputs)
                /\ DriftIdle /\ SimInitWith({<<>>}) /\ RulesIdle /\ BasketIdle

SpecPipeline == InitPipeline /\ [][PipeNext]_vars

\* python drift_detection.py, started between training runs.
GateRun ==
    /\ pipe_pc \in {"idle", "exited"}
    /\ GateStart

\* python training_basket_modularized.py
ModularRun == PipeStart("modularized")

SnapshotNext ==
    \/ GateRun
    \/ GateLoadEnv
    \/ GateFetch
    \/ GateWrite
    \/ GateRead
    \/ GateReport
    \/ GateVerdict
    \/ ModularRun
    \/ PipeFetch
    \/ PipeSnapshot
    \/ PipeConnect
    \/ PipeCreateTable
    \/ PipeBuildTable
    \/ PipeMine
    \/ PipeSaveItemsets
    \/ PipeRules
    \/ PipeSaveRules
    \/ PipeExample
    \/ PipeLog
    \/ PipeInsert
    \/ PipeExcept
    \/ PipeFinally

\* Drift-gate runs and runs of main() in any order, one after the other, on
\* any data folder.
InitSnapshots == DriftInit /\ PipeInitWith({<<Row(1, A, 1)>>})
                 /\ SimInitWith({<<>>}) /\ RulesIdle /\ BasketIdle

SpecSnapshots == InitSnapshots /\ [][SnapshotNext]_vars

(***************************************************************************)
(* Claims about the drift gate, checked under SpecDrift                    *)
(***************************************************************************)

\* C1: every run of detectar_drift ends without an exception leaving it and
\* with exactly one token written to drift_detected.txt, whichever stage
\* failed. load_environment_variables() is called before the first try, so
\* its failure leaves the gate and nothing is written.
C1_GateNeverRaises ==
    gate_pc = "done" => (~gate_raised /\ gate_writes = 1)

\* The stages before the snapshots are read.
EarlyStages == {"load_env", "fetch", "write"}

\* C2 as stated: a run started without the reference snapshot ends with
\* "error: archivo_no_encontrado", also when a current snapshot exists
\* (here for the runs whose fetch and snapshot write succeed).
C2_MissingReferenceAlwaysNotFound ==
    (/\ gate_pc = "done"
     /\ start_old = "absent"
     /\ start_new \in Data
     /\ gate_failed \notin EarlyStages)
        => drift_detected_txt = "error: archivo_no_encontrado"

\* C2 amended: a run started without the reference snapshot makes the fetched
\* rows the reference; when the fetch and that write succeed, the token is
\* "error: archivo_no_encontrado" exactly when the current snapshot is
\* missing too.
C2_MissingReference ==
    (/\ gate_pc = "done"
     /\ start_old = "absent"
     /\ gate_failed \notin EarlyStages)
        => /\ old_file = dataframe_retail_data
           /\ new_file = start_new
           /\ (drift_detected_txt = "error: archivo_no_encontrado"
                  <=> start_new = "absent")

C2_Witness ==
    /\ gate_pc = "done"
    /\ start_old = "absent"
    /\ start_new = "absent"
    /\ gate_failed = "read"
    /\ old_file \in Data
    /\ drift_detected_txt = "error: archivo_no_encontrado"

(***************************************************************************)
(* Claims about the similarity lookup, checked under SpecSim               *)
(***************************************************************************)

\* The request answered last was for a code of the loaded table.
Answered == response.status # 0
Known == get_loc(co_ocurrence_matrix.obj.columns, response.stockcode) # 0

\* C3: the similarity lookup for a product never returns that product among
\* its recommendations. The source drops the first of the sorted scores,
\* which is another product when that product scores as high as the product
\* itself and stands earlier in column order.
C3_NeverRecommendsItself ==
    (Answered /\ response.status = 200)
        => \A k \in DOMAIN response.recommendations :
              response.recommendations[k] # response.stockcode

\* C4: a lookup for a code that is not a column of the table is answered
\* with a not-found failure (404). The source lets the KeyError of get_loc
\* leave the handler, which the framework answers with 500.
C4_UnknownProductNotFound ==
    (Answered /\ ~Known) => response.status = 404

\* Column c of the table is an item that occurs in one basket only, and that
\* basket holds no other item.
Isolated(table, c) ==
    \E r \in DOMAIN table.values :
        /\ table.values[r][c] > 0
        /\ \A r2 \in DOMAIN table.values : r2 # r => table.values[r2][c] = 0
        /\ \A c2 \in DOMAIN table.columns : c2 # c => table.values[r][c2] = 0

\* C10: the lookup with n >= 1 for an item that is alone in its only basket
\* returns an empty list. The source returns the first n other products,
\* whose similarity to the item is zero.
C10_IsolatedItemHasNoRecommendations ==
    (/\ Answered
     /\ Known
     /\ response.n >= 1
     /\ Isolated(co_ocurrence_matrix.obj,
                 get_loc(co_ocurrence_matrix.obj.columns, response.stockcode)))
        => /\ response.status = 200
           /\ response.recommendations = <<>>

\* The products other than the requested one, ordered by their similarity to
\* it, highest first, equal scores in column order.
OthersRanked ==
    LET table == co_ocurrence_matrix.obj
        p == get_loc(table.columns, response.stockcode)
        others == SortedDesc(Remove(Enumerate(product_similarities.obj[p]), p))
    IN  [k \in DOMAIN others |-> table.columns[others[k].idx]]

\* C14: for a product of the table and n >= 0 the lookup returns exactly the
\* first min(n, number of products - 1) of the other products, ordered by
\* similarity to the product, highest first, equal scores in column order.
\* The source sorts the product with the others and drops the first of the
\* sorted scores, which is not the product when an earlier column ties it.
C14_LookupIsTopOfOthers ==
    (Answered /\ Known /\ response.n >= 0)
        => /\ response.status = 200
           /\ response.recommendations =
                 SubSeq(OthersRanked, 1, Min(response.n, Len(OthersRanked)))

\* C16: for every integer n the lookup returns at most max(n, 0) products; a
\* negative n never yields a non-empty list. The source slices [1 : n + 1],
\* and a negative stop counts from the end of the list.
C16_AtMostNProducts ==
    (Answered /\ response.status = 200)
        => Len(response.recommendations) <= Max(response.n, 0)

(***************************************************************************)
(* Claims about the association-rule lookup                                *)
(***************************************************************************)

\* The positions of the rules whose antecedent contains the product.
Matching(stockcode) == {k \in DOMAIN rules : stockcode \in rules[k].antecedents}

\* The choices of the n highest-lift rules among those (all of them when
\* there are fewer than n): no rule left out has a higher lift than one taken.
TopRules(stockcode, n) ==
    {S \in SUBSET Matching(stockcode) :
        /\ Cardinality(S) = Min(n, Cardinality(Matching(stockcode)))
        /\ \A k \in S, m \in Matching(stockcode) \ S : rules[k].lift >= rules[m].lift}

NoDuplicates(s) == \A j, k \in DOMAIN s : j # k => s[j] # s[k]

C13_AtMostNRecommendations ==
    (lookup.called /\ lookup.n >= 0)
        => Len(lookup.recommendations) <= lookup.n

\* The lookup for an item of a POST body is not empty: it asks for at least
\* one rule and some rule has the product in its antecedent.
HasRecommendations(item) ==
    /\ item.recommendations >= 1
    /\ Matching(item.stockcode) # {}

\* C6 (SpecPost): the answer of POST /recommend/ lists, in the order of the
\* body, the items whose lookup is not empty and no other; an item whose
\* product is in no antecedent is left out, without an error.
C6_PostOmitsEmptyLookups ==
    post_response.status # 0
        => LET expected == SelectSeq(post_response.body, HasRecommendations)
           IN  /\ post_response.status = 200
               /\ Len(post_response.list) = Len(expected)
               /\ \A k \in DOMAIN expected :
                     /\ post_response.list[k].stockcode = expected[k].stockcode
                     /\ post_response.list[k].recommendations # <<>>
                     /\ post_response.list[k] \in recommend_association_rules(
                            expected[k].stockcode, rules, expected[k].recommendations)

\* A body of two items: the first is the antecedent of no rule and is left
\* out, the second is answered.
C6_Witness ==
    /\ post_response.status = 200
    /\ Len(post_response.body) = 2
    /\ post_response.body[1].recommendations >= 1
    /\ Matching(post_response.body[1].stockcode) = {}
    /\ Len(post_response.list) = 1
    /\ post_response.list[1].stockcode = post_response.body[2].stockcode

(***************************************************************************)
(* Claims about model replacement, checked under SpecReload                *)
(***************************************************************************)

\* C7: a serving process that loads the persisted pair while training
\* rewrites it holds the table and the similarity matrix of one training run.
\* The source writes and reads the two files one after the other.
C7_LoadedPairIsOfOneRun ==
    serve_pc = "serving" => co_ocurrence_matrix.run = product_similarities.run

(***************************************************************************)
(* Claims about the basket builders, checked under SpecBasket              *)
(***************************************************************************)

\* Some line of the pair has a positive quantity.
HasPositiveLine(i, s) ==
    \E k \in DOMAIN transactions :
        /\ transactions[k].INVOICENO = i
        /\ transactions[k].STOCKCODE = s
        /\ transactions[k].QUANTITY > 0

\* C8: both basket builders mark a product present in an invoice exactly
\* when some line of the pair has a quantity > 0. The source decides on the
\* summed quantity: > 0 in training_basket_analysis.py, not 0 in
\* transform_to_basket.
C8_PresenceIffPositiveLine ==
    /\ built.analysis.done =>
          LET t == built.analysis.table
          IN  \A r \in DOMAIN t.index, c \in DOMAIN t.columns :
                 (t.values[r][c] = 1) <=> HasPositiveLine(t.index[r], t.columns[c])
    /\ built.modular.done =>
          LET t == built.modular.table
          IN  \A r \in DOMAIN t.index, c \in DOMAIN t.columns :
                 t.values[r][c] <=> HasPositiveLine(t.index[r], t.columns[c])

\* The transactions of the scenario: [(1, A, 2), (1, B, 1), (2, A, 1)].
Scenario == <<Row(1, A, 2), Row(1, B, 1), Row(2, A, 1)>>

\* C9 as stated: the co-occurrence table of the scenario has cell(1, A) = 2.
C9_ScenarioCellIsQuantity ==
    (transactions = Scenario /\ built.pivot.done)
        => built.pivot.table = [index |-> <<1, 2>>, columns |-> <<A, B>>,
                                values |-> <<<<2, 1>>, <<1, 0>>>>]

\* C9 amended: the co-occurrence table of the scenario has columns {A, B},
\* rows {1, 2} and the number of lines of each pair as cells, so
\* cell(1, A) = 1; the basket tables have row 1 = {A, B} and row 2 = {A}.
C9_ScenarioTables ==
    transactions = Scenario
        => /\ built.pivot.done =>
                 built.pivot.table = [index |-> <<1, 2>>, columns |-> <<A, B>>,
                                      values |-> <<<<1, 1>>, <<1, 0>>>>]
           /\ built.analysis.done =>
                 built.analysis.table = [index |-> <<1, 2>>, columns |-> <<A, B>>,
                                         values |-> <<<<1, 1>>, <<1, 0>>>>]
           /\ built.modular.done =>
                 built.modular.table = [index |-> <<1, 2>>, columns |-> <<A, B>>,
                                        values |-> <<<<TRUE, TRUE>>, <<TRUE, FALSE>>>>]

C9_Witness ==
    /\ transactions = Scenario
    /\ built.pivot.done
    /\ built.analysis.done
    /\ built.modular.done

(***************************************************************************)
(* Claims about the training runs, checked under SpecPipeline              *)
(***************************************************************************)

\* The stages of a run before its table is built.
BeforeBuild == {"fetch", "snapshot", "connect_db", "create_table", "read_input"}

\* C11: a training run whose input has no rows fails: an error leaves the
\* script and no co-occurrence, itemset or rule file is written (here for
\* the runs that get as far as building the table; the source defines no
\* EmptyInputError, so any error leaving the script counts as the failure).
\* The source checks the row count nowhere: the table of no rows is written
\* out before a later stage refuses it, and main() ends normally after that.
C11_EmptyInputFails ==
    (/\ pipe_pc = "exited"
     /\ pipe_input = <<>>
     /\ pipe_error.stage \notin BeforeBuild)
        => /\ pipe_raised # NoError
           /\ pipe_written = {}

\* C12: when a stage of a training run has raised, the run ends with that
\* error leaving the script: it never ends as if it had succeeded, and the
\* finally clause never puts another error in its place. main() of
\* training_basket_modularized.py does not raise the caught error again;
\* the finally clause of the two scripts calls conn.close() on a name that
\* is unassigned when sqlite3.connect raised.
C12_StageErrorIsReported ==
    (pipe_pc = "exited" /\ pipe_error # NoError)
        => pipe_raised = pipe_error

(***************************************************************************)
(* Claims about the snapshot files, checked under SpecSnapshots            *)
(***************************************************************************)

\* C15: over any sequence of drift-gate runs and runs of main(), a reference
\* snapshot that exists is never written again, and no step taken while the
\* reference is missing writes the current snapshot: a run that finds the
\* reference writes the fetched rows to the current snapshot only, and a run
\* that finds none writes the reference only.
C15_ReferenceWrittenOnce ==
    [][/\ (old_file # "absent" => old_file' = old_file)
       /\ (old_file = "absent" => new_file' = new_file)
       /\ (new_file' # new_file =>
              new_file' = IF gate_pc = "write" THEN dataframe_retail_data ELSE pipe_data)]_vars

\* A run of main() found no reference and wrote it; a later run of the drift
\* gate found that reference, left it alone and wrote another extract to
\* the current snapshot.
C15_Witness ==
    /\ pipe_pc = "exited"
    /\ pipe_snapshot = "old"
    /\ gate_pc = "done"
    /\ start_old = pipe_data
    /\ old_file = pipe_data
    /\ new_file = dataframe_retail_data
    /\ new_file # start_new
    /\ new_file # old_file

====
